---- MODULE Spec2Model ----
(***************************************************************************)
(* Model of care/facility/api/viewsets/legacy/patient_consultation.py:     *)
(* PatientConsultationViewSet (get_queryset, list, retrieve, create,       *)
(* discharge_patient, patient_from_asset) and PatientConsentViewSet        *)
(* (get_consultation_obj, get_queryset, list, retrieve).                   *)
(*                                                                         *)
(* The database is the state: patients, consultations, consultation_beds   *)
(* and consents are tables keyed by primary key.  A request is an action;  *)
(* its inputs (the requesting user, path and query parameters, payload)    *)
(* are drawn with \E and the outcome is left in `response`.                *)
(***************************************************************************)
EXTENDS Integers, Sequences, FiniteSets, TLC

VARIABLES
    patients,           \* PatientRegistration rows: id -> [is_active, facility, ...]
    consultations,      \* PatientConsultation rows: id -> [patient, facility, current_bed, ...]
    consultation_beds,  \* ConsultationBed rows: id -> [bed, assets, end_date]
    consents,           \* PatientConsent rows: id -> [consultation, archived]
    response,           \* the last request served and its outcome (None when idle)
    inflight            \* requests between two of their steps: proc -> record

vars == <<patients, consultations, consultation_beds, consents, response, inflight>>

db == <<patients, consultations, consultation_beds, consents>>

\* Python None / SQL NULL; primary keys start at 1.
None == 0

----------------------------------------------------------------------------
(* Bounds of the model *)

MaxConsultation == 3    \* consultation rows present initially
MaxConsent == 2         \* consent rows present initially
MaxCreate == 2          \* consultations the create action may add
MaxProc == 2            \* concurrent requests in the interleaved specification
MaxBedAssignment == 2   \* consultation_beds rows in the asset-lookup specification

----------------------------------------------------------------------------
(* Reference data *)

\* User.TYPE_VALUE_MAP: the ordered role tiers.
TYPE_VALUE_MAP ==
    [Staff |-> 10, DistrictLabAdmin |-> 25, DistrictAdmin |-> 30,
     StateLabAdmin |-> 35, StateAdmin |-> 40]

UserTypes == {TYPE_VALUE_MAP[k] : k \in DOMAIN TYPE_VALUE_MAP}

Facilities == {1, 2}
States == {1, 2}
Districts == {1, 2}

\* Facility rows: both facilities lie in state 1, in different districts.
facilities ==
    [f \in Facilities |-> [state |-> 1, district |-> f]]

Patients == {1, 2, 3}
Assets == {1, 2, 3}
Beds == {1, 2}

\* A UUID external_id: unique per row, distinct from the primary key.
ConsultationExternalId(id) == 100 + id
PatientExternalId(id) == 200 + id
BedExternalId(id) == 300 + id
ConsentExternalId(id) == 400 + id

\* The users a request may come from.  accessible is the snapshot
\* get_accessible_facilities returns for the user during the request.
Users ==
    [is_superuser : BOOLEAN,
     user_type : UserTypes,
     state : States \cup {None},
     district : Districts \cup {None},
     home_facility : Facilities \cup {None},
     accessible : SUBSET Facilities,
     asset : {None}]

AssetUsers ==
    [is_superuser : {FALSE},
     user_type : {TYPE_VALUE_MAP.Staff},
     state : {1},
     district : {1},
     home_facility : {None},
     accessible : {{}},
     asset : Assets]

----------------------------------------------------------------------------
(* ORM helpers *)

Max(S) == CHOOSE x \in S : \A y \in S : y <= x

\* QuerySet.order_by("-id"): the rows of S by descending primary key.
RECURSIVE order_by_desc_id(_)
order_by_desc_id(S) ==
    IF S = {} THEN <<>> ELSE <<Max(S)>> \o order_by_desc_id(S \ {Max(S)})

\* QuerySet.first(): the first row of an ordered queryset, or None.
first(rows) == IF rows = <<>> THEN None ELSE Head(rows)

\* Lookups that span relations (LEFT JOIN: a missing row yields NULL).
patient__is_active(c) == patients[consultations[c].patient].is_active
patient__facility(c) == patients[consultations[c].patient].facility
patient__facility__state(c) ==
    IF patient__facility(c) = None THEN None
    ELSE facilities[patient__facility(c)].state
patient__facility__district(c) ==
    IF patient__facility(c) = None THEN None
    ELSE facilities[patient__facility(c)].district

\* The organisation-membership resolver; its result is a per-request snapshot.
get_accessible_facilities(user) == user.accessible

----------------------------------------------------------------------------
(* PatientConsultationViewSet.get_queryset *)

\* Q(patient__facility__state=user.state)
state_filter(user, c) == patient__facility__state(c) = user.state

\* Q(patient__facility__district=user.district)
district_filter(user, c) == patient__facility__district(c) = user.district

\* Mutant: the patient__is_active condition left out of the first disjunct.
applied_filters_without_is_active(user, c) ==
    LET allowed_facilities == get_accessible_facilities(user) IN
    \/ patient__facility(c) \in allowed_facilities
    \/ consultations[c].facility = user.home_facility

\* Q(Q(patient__is_active=True) & Q(patient__facility__id__in=allowed_facilities))
\*   | Q(facility=user.home_facility)
applied_filters(user, c) ==
    LET allowed_facilities == get_accessible_facilities(user) IN
    \/ /\ patient__is_active(c) = TRUE
       /\ patient__facility(c) \in allowed_facilities
    \/ consultations[c].facility = user.home_facility

\* Mutant: the district tier tested before the state tier.
get_queryset_district_first(user) ==
    LET queryset == DOMAIN consultations IN
    IF user.is_superuser THEN queryset
    ELSE IF user.user_type >= TYPE_VALUE_MAP.DistrictLabAdmin
        THEN {c \in queryset : district_filter(user, c)}
    ELSE IF user.user_type >= TYPE_VALUE_MAP.StateLabAdmin
        THEN {c \in queryset : state_filter(user, c)}
    ELSE {c \in queryset : applied_filters(user, c)}

\* Mutant: the superuser test placed after the tier tests.
get_queryset_superuser_last(user) ==
    LET queryset == DOMAIN consultations IN
    IF user.user_type >= TYPE_VALUE_MAP.StateLabAdmin
        THEN {c \in queryset : state_filter(user, c)}
    ELSE IF user.user_type >= TYPE_VALUE_MAP.DistrictLabAdmin
        THEN {c \in queryset : district_filter(user, c)}
    ELSE IF user.is_superuser THEN queryset
    ELSE {c \in queryset : applied_filters(user, c)}

get_queryset(user) ==
    LET queryset == DOMAIN consultations IN
    IF user.is_superuser THEN queryset
    ELSE IF user.user_type >= TYPE_VALUE_MAP.StateLabAdmin
        THEN {c \in queryset : state_filter(user, c)}
    ELSE IF user.user_type >= TYPE_VALUE_MAP.DistrictLabAdmin
        THEN {c \in queryset : district_filter(user, c)}
    ELSE {c \in queryset : applied_filters(user, c)}

\* PatientConsultationFilter: ?patient=<patient external_id>&facility=<facility id>
FilterParams ==
    [patient : {None} \cup {PatientExternalId(p) : p \in Patients},
     facility : {None} \cup Facilities]

filter_queryset(queryset, params) ==
    {c \in queryset :
        /\ params.patient # None =>
              patients[consultations[c].patient].external_id = params.patient
        /\ params.facility # None => consultations[c].facility = params.facility}

NoFilter == [patient |-> None, facility |-> None]

\* get_object_or_404(queryset, external_id=...): the row, or None for Http404.
get_object_or_404(queryset, external_id) ==
    LET found == {c \in queryset : consultations[c].external_id = external_id} IN
    IF found = {} THEN None ELSE CHOOSE c \in found : TRUE

\* Mutant: the object looked up in the class-level queryset, not get_queryset().
get_object_unscoped(user, external_id, params) ==
    get_object_or_404(filter_queryset(DOMAIN consultations, params), external_id)

\* GenericAPIView.get_object of the consultation viewset.
get_object(user, external_id, params) ==
    get_object_or_404(filter_queryset(get_queryset(user), params), external_id)

----------------------------------------------------------------------------
(* Requests *)

Idle == [op |-> "none"]

\* External ids a path may carry: those of rows that may exist, and one of no row.
ConsultationExternalIds ==
    {ConsultationExternalId(c) : c \in 1..(MaxConsultation + 1)}

Respond(op, user, args, status, body) ==
    response' = [op |-> op, user |-> user, args |-> args,
                 status |-> status, body |-> body]

\* GET /consultation/ : ListModelMixin.list over filter_queryset(get_queryset()).
list ==
    /\ response = Idle
    /\ \E user \in Users, params \in FilterParams :
          Respond("list", user, params, 200,
                  order_by_desc_id(filter_queryset(get_queryset(user), params)))
    /\ UNCHANGED <<db, inflight>>

\* GET /consultation/<external_id>/ : RetrieveModelMixin.retrieve, requested
\* without query parameters.
retrieve ==
    /\ response = Idle
    /\ \E user \in Users, external_id \in ConsultationExternalIds :
          LET obj == get_object(user, external_id, NoFilter) IN
          IF obj = None
          THEN Respond("retrieve", user, external_id, 404, <<>>)
          ELSE Respond("retrieve", user, external_id, 200, <<obj>>)
    /\ UNCHANGED <<db, inflight>>

\* Mutant: save() called without current_bed=None.
serializer_save_keeps_bed(c, instance) ==
    [consultations EXCEPT ![c] = instance]

\* serializer.save(current_bed=None): ModelSerializer.update sets the validated
\* fields and current_bed on the instance read earlier and saves that instance.
serializer_save(c, instance) ==
    [consultations EXCEPT ![c] = [instance EXCEPT !.current_bed = None]]

\* POST /consultation/<external_id>/discharge_patient/ served without interleaving.
discharge_patient ==
    /\ response = Idle
    /\ \E user \in Users, external_id \in ConsultationExternalIds, is_valid \in BOOLEAN :
          LET consultation == get_object(user, external_id, NoFilter) IN
          IF consultation = None
          THEN /\ Respond("discharge_patient", user, external_id, 404, <<>>)
               /\ UNCHANGED consultations
          ELSE IF ~is_valid
          THEN /\ Respond("discharge_patient", user, external_id, 400, <<>>)
               /\ UNCHANGED consultations
          ELSE /\ consultations' =
                      serializer_save(consultation, consultations[consultation])
               /\ response' =
                      [op |-> "discharge_patient", user |-> user,
                       args |-> external_id, status |-> 200,
                       body |-> <<consultation>>,
                       instance |-> consultations[consultation]]
    /\ UNCHANGED <<patients, consultation_beds, consents, inflight>>

----------------------------------------------------------------------------
(* PatientConsultationViewSet.patient_from_asset *)

\* Asset rows and AssetBed rows (the link table behind asset.bed_set).
\* A preset name is a sequence of letters: 1 = "a", 2 = "A", 3 = "b", 4 = "B".
assets == [a \in Assets |-> [current_location |-> IF a = 3 THEN 2 ELSE 1]]

asset_bed_rows ==
    <<[asset |-> 2, bed |-> 2, preset_name |-> <<2, 3>>],
      [asset |-> 1, bed |-> 1, preset_name |-> <<1>>],
      [asset |-> 3, bed |-> 1, preset_name |-> <<4, 1>>]>>

AssetBedIds == DOMAIN asset_bed_rows

\* asset.bed_set.all()
bed_set(asset) == {asset_bed_rows[i].bed : i \in {j \in AssetBedIds : asset_bed_rows[j].asset = asset}}

lower(ch) == IF ch % 2 = 0 THEN ch - 1 ELSE ch

\* meta__preset_name__icontains: case-insensitive substring match.
icontains(text, needle) ==
    \E i \in 0..(Len(text) - Len(needle)) :
        \A j \in 1..Len(needle) : lower(text[i + j]) = lower(needle[j])

\* ?preset_name=...; <<>> is the parameter left out or empty (both falsy).
PresetNames == {<<>>, <<1>>, <<3, 2>>}

\* Mutant: the end_date__isnull=True condition left out.
open_consultation_bed_any_end_date(asset) ==
    first(order_by_desc_id(
        {b \in DOMAIN consultation_beds :
            \/ asset \in consultation_beds[b].assets
            \/ consultation_beds[b].bed \in bed_set(asset)}))

\* ConsultationBed.objects.filter(Q(assets=asset) | Q(bed__in=asset.bed_set.all()),
\*                                end_date__isnull=True).order_by("-id").first()
open_consultation_bed(asset) ==
    first(order_by_desc_id(
        {b \in DOMAIN consultation_beds :
            /\ \/ asset \in consultation_beds[b].assets
               \/ consultation_beds[b].bed \in bed_set(asset)
            /\ consultation_beds[b].end_date = None}))

\* PatientConsultation.objects.order_by("-id")
\*     .filter(current_bed=consultation_bed, patient__is_active=True).first()
consultation_in_bed(consultation_bed) ==
    first(order_by_desc_id(
        {c \in DOMAIN consultations :
            /\ consultations[c].current_bed = consultation_bed
            /\ patient__is_active(c) = TRUE}))

\* AssetBed.objects.filter(asset__current_location=..., bed=..., meta__preset_name__icontains=...)
asset_beds_for(asset, bed, preset_name) ==
    IF preset_name = <<>> THEN {}
    ELSE {i \in AssetBedIds :
            /\ assets[asset_bed_rows[i].asset].current_location
                  = assets[asset].current_location
            /\ asset_bed_rows[i].bed = bed
            /\ icontains(asset_bed_rows[i].preset_name, preset_name)}

\* GET /consultation/patient_from_asset/ ; permission class IsAssetUser.
patient_from_asset ==
    /\ response = Idle
    /\ \E user \in AssetUsers, preset_name \in PresetNames :
          LET consultation_bed == open_consultation_bed(user.asset)
              consultation == consultation_in_bed(consultation_bed)
          IN
          IF consultation_bed = None
          THEN Respond("patient_from_asset", user, preset_name, 404,
                       <<"No consultation bed found for this asset">>)
          ELSE IF consultation = None
          THEN Respond("patient_from_asset", user, preset_name, 404,
                       <<"No consultation found for this asset">>)
          ELSE Respond("patient_from_asset", user, preset_name, 200,
                  <<[consultation |-> consultation,
                     consultation_bed |-> consultation_bed,
                     patient_id |->
                         patients[consultations[consultation].patient].external_id,
                     consultation_id |-> consultations[consultation].external_id,
                     bed_id |-> BedExternalId(consultation_beds[consultation_bed].bed),
                     asset_beds |->
                         asset_beds_for(user.asset,
                                        consultation_beds[consultation_bed].bed,
                                        preset_name)]>>)
    /\ UNCHANGED <<db, inflight>>

----------------------------------------------------------------------------
(* PatientConsentViewSet *)

\* care.utils.queryset.consultation.get_consultation_queryset: the consultation
\* access predicate applied to all consultations.
get_consultation_queryset(user) == get_queryset(user)

\* Mutant: the consultation looked up among all consultations.
get_consultation_obj_unscoped(user, consultation_external_id) ==
    get_object_or_404(DOMAIN consultations, consultation_external_id)

\* get_consultation_obj: the consultation named in the path, or None for Http404.
get_consultation_obj(user, consultation_external_id) ==
    get_object_or_404(get_consultation_queryset(user), consultation_external_id)

\* Mutant: the consents not filtered by the resolved consultation.
consent_get_queryset_unfiltered(consultation) == DOMAIN consents

\* PatientConsentViewSet.get_queryset, given the resolved consultation.
consent_get_queryset(consultation) ==
    {k \in DOMAIN consents : consents[k].consultation = consultation}

\* filterset_fields = ("archived",)
ArchivedParams == {"", "true", "false"}

consent_filter_queryset(queryset, archived) ==
    {k \in queryset :
        archived # "" => consents[k].archived = (archived = "true")}

ConsentExternalIds == {ConsentExternalId(k) : k \in 1..(MaxConsent + 1)}

\* GET /consultation/<consultation_external_id>/consents/
consent_list ==
    /\ response = Idle
    /\ \E user \in Users, consultation_external_id \in ConsultationExternalIds,
          archived \in ArchivedParams :
          LET consultation == get_consultation_obj(user, consultation_external_id)
              args == [consultation_external_id |-> consultation_external_id,
                       archived |-> archived]
          IN
          IF consultation = None
          THEN Respond("consent_list", user, args, 404, <<>>)
          ELSE Respond("consent_list", user, args, 200,
                  order_by_desc_id(
                      consent_filter_queryset(consent_get_queryset(consultation),
                                              archived)))
    /\ UNCHANGED <<db, inflight>>

\* GET /consultation/<consultation_external_id>/consents/<external_id>/
consent_retrieve ==
    /\ response = Idle
    /\ \E user \in Users, consultation_external_id \in ConsultationExternalIds,
          external_id \in ConsentExternalIds :
          LET consultation == get_consultation_obj(user, consultation_external_id)
              args == [consultation_external_id |-> consultation_external_id,
                       external_id |-> external_id]
          IN
          IF consultation = None
          THEN Respond("consent_retrieve", user, args, 404, <<>>)
          ELSE LET found == {k \in consent_get_queryset(consultation) :
                                consents[k].external_id = external_id}
               IN IF found = {}
                  THEN Respond("consent_retrieve", user, args, 404, <<>>)
                  ELSE Respond("consent_retrieve", user, args, 200,
                               order_by_desc_id(found))
    /\ UNCHANGED <<db, inflight>>

----------------------------------------------------------------------------
(* PatientConsultationViewSet.create *)

\* settings ATOMIC_REQUESTS: a request runs inside one transaction that is
\* rolled back when the view raises.
ATOMIC_REQUESTS == TRUE

\* Mutant: the decorator missing from create.
no_view_exempt(action) == FALSE

\* @transaction.non_atomic_requests exempts a view from that transaction.
non_atomic_requests(action) == action = "create"

\* What a request that raises leaves in the database: `before` when it ran in
\* the request transaction, else the writes made so far.
on_exception(action, before, written) ==
    IF ATOMIC_REQUESTS /\ ~non_atomic_requests(action) THEN before ELSE written

CreateOutcomes == {"invalid", "raises", "created"}

\* POST /consultation/ : CreateModelMixin.create -> serializer.save().  The
\* serializer writes the consultation row, then the row that depends on it
\* (the patient's last_consultation); "raises" fails between the two.
create ==
    /\ response = Idle
    /\ Cardinality(DOMAIN consultations) < MaxConsultation + MaxCreate
    /\ \E patient \in Patients, facility \in Facilities, outcome \in CreateOutcomes :
          LET id == Max(DOMAIN consultations) + 1
              args == [patient |-> patient, facility |-> facility]
              first_write ==
                  consultations @@
                      (id :> [patient |-> patient, facility |-> facility,
                              current_bed |-> None,
                              external_id |-> ConsultationExternalId(id)])
              second_write == [patients EXCEPT ![patient].last_consultation = id]
              kept == on_exception("create", <<consultations, patients>>,
                                   <<first_write, patients>>)
          IN
          CASE outcome = "invalid" ->
                  /\ Respond("create", None, args, 400, <<>>)
                  /\ UNCHANGED <<consultations, patients>>
            [] outcome = "raises" ->
                  /\ consultations' = kept[1]
                  /\ patients' = kept[2]
                  /\ Respond("create", None, args, 500, <<id>>)
            [] outcome = "created" ->
                  /\ consultations' = first_write
                  /\ patients' = second_write
                  /\ Respond("create", None, args, 201, <<id>>)
    /\ UNCHANGED <<consultation_beds, consents, inflight>>

----------------------------------------------------------------------------
(* discharge_patient as two database steps, for requests served concurrently *)

\* Line 112, consultation = self.get_object(): a SELECT; no row lock is taken.
discharge_get_object(p) ==
    /\ inflight[p] = Idle
    /\ \E user \in Users, external_id \in ConsultationExternalIds :
          LET consultation == get_object(user, external_id, NoFilter) IN
          IF consultation = None
          THEN /\ response' = [op |-> "discharge_patient", proc |-> p,
                               status |-> 404, consultation |-> None]
               /\ UNCHANGED inflight
          ELSE /\ inflight' =
                      [inflight EXCEPT ![p] =
                          [op |-> "discharge_patient",
                           consultation |-> consultation,
                           instance |-> consultations[consultation]]]
               /\ UNCHANGED response
    /\ UNCHANGED db

\* Lines 113-116: validate the payload, then save the instance read at line 112.
discharge_save(p) ==
    /\ inflight[p] # Idle
    /\ \E is_valid \in BOOLEAN :
          IF ~is_valid
          THEN /\ response' = [op |-> "discharge_patient", proc |-> p,
                               status |-> 400,
                               consultation |-> inflight[p].consultation]
               /\ UNCHANGED consultations
          ELSE /\ consultations' =
                      serializer_save(inflight[p].consultation, inflight[p].instance)
               /\ response' = [op |-> "discharge_patient", proc |-> p,
                               status |-> 200,
                               consultation |-> inflight[p].consultation]
    /\ inflight' = [inflight EXCEPT ![p] = Idle]
    /\ UNCHANGED <<patients, consultation_beds, consents>>

\* The response has been sent; the next request may be served.
next_request ==
    /\ response # Idle
    /\ response' = Idle
    /\ UNCHANGED <<db, inflight>>

----------------------------------------------------------------------------
(* Initial database *)

Procs == 1..MaxProc

InitPatients ==
    [p \in Patients |->
        [is_active |-> (p # 2),
         facility |-> IF p \in Facilities THEN p ELSE None,
         external_id |-> PatientExternalId(p),
         last_consultation |-> None]]

\* Consultation c of patient ((c-1) % 3) + 1, held at facility (c % 2) + 1.
InitConsultations ==
    [c \in 1..MaxConsultation |->
        [patient |-> ((c - 1) % 3) + 1,
         facility |-> (c % 2) + 1,
         current_bed |-> c,
         external_id |-> ConsultationExternalId(c)]]

InitConsultationBeds ==
    [b \in 1..MaxConsultation |->
        [bed |-> ((b - 1) % 2) + 1,
         assets |-> {((b - 1) % 2) + 1},
         end_date |-> None]]

InitConsents ==
    [k \in 1..MaxConsent |->
        [consultation |-> ((k - 1) % MaxConsultation) + 1,
         archived |-> (k % 2 = 0),
         external_id |-> ConsentExternalId(k)]]

Init ==
    /\ patients = InitPatients
    /\ consultations = InitConsultations
    /\ consultation_beds = InitConsultationBeds
    /\ consents = InitConsents
    /\ response = Idle
    /\ inflight = [p \in Procs |-> Idle]

Next ==
    \/ list
    \/ retrieve
    \/ discharge_patient
    \/ patient_from_asset
    \/ consent_list
    \/ consent_retrieve
    \/ next_request

Spec == Init /\ [][Next]_vars

\* Consultation creation, request after request.
NextCreate ==
    \/ create
    \/ next_request

SpecCreate == Init /\ [][NextCreate]_vars

\* Discharge requests served concurrently by MaxProc workers.
NextConcurrent ==
    \E p \in Procs :
        \/ discharge_get_object(p)
        \/ discharge_save(p)

SpecConcurrent == Init /\ [][NextConcurrent]_vars

\* The asset lookup over every arrangement of bed assignments, current beds and
\* patient activity.
InitAsset ==
    /\ \E active \in [Patients -> BOOLEAN] :
          patients = [p \in Patients |-> [InitPatients[p] EXCEPT !.is_active = active[p]]]
    /\ consultation_beds \in
          [1..MaxBedAssignment ->
              [bed : Beds, assets : {{}, {1}}, end_date : {None, 1}]]
    /\ \E placed \in [1..MaxConsultation -> BOOLEAN] :
          consultations =
              [c \in 1..MaxConsultation |->
                  [InitConsultations[c] EXCEPT
                      !.current_bed =
                          IF placed[c] THEN ((c - 1) % MaxBedAssignment) + 1 ELSE None]]
    /\ consents = InitConsents
    /\ response = Idle
    /\ inflight = [p \in Procs |-> Idle]

NextAsset ==
    \/ patient_from_asset
    \/ next_request

SpecAsset == InitAsset /\ [][NextAsset]_vars

----------------------------------------------------------------------------
(* Properties *)

Range(seq) == {seq[i] : i \in DOMAIN seq}

PatientOf(c) == patients[consultations[c].patient]

IsGeneralUser(u) ==
    ~u.is_superuser /\ u.user_type < TYPE_VALUE_MAP.DistrictLabAdmin

ActiveInAccessibleFacility(u, c) ==
    PatientOf(c).is_active /\ PatientOf(c).facility \in u.accessible

InHomeFacility(u, c) == consultations[c].facility = u.home_facility

\* The rows a list request's query parameters keep.
Requested == filter_queryset(DOMAIN consultations, response.args)

\* C1: for a non-superuser below DistrictLabAdmin, get_queryset selects a
\* consultation iff (its patient is active and the patient's facility is in the
\* user's accessible set) or (the consultation's facility is the user's home
\* facility); list returns exactly those rows and retrieve finds a row iff it
\* is one of them.
C1_GeneralUserPredicate ==
    /\ (response.op = "list" /\ IsGeneralUser(response.user)) =>
          Range(response.body) =
              {c \in Requested :
                  \/ ActiveInAccessibleFacility(response.user, c)
                  \/ InHomeFacility(response.user, c)}
    /\ (response.op = "retrieve" /\ IsGeneralUser(response.user)) =>
          (response.status = 200 <=>
              \E c \in DOMAIN consultations :
                  /\ consultations[c].external_id = response.args
                  /\ \/ ActiveInAccessibleFacility(response.user, c)
                     \/ InHomeFacility(response.user, c))

\* A general user's unfiltered list that holds a row matched by the first
\* disjunct alone and leaves out an inactive patient's row from another facility
\* although that patient's facility is accessible.
C1_Witness ==
    /\ response.op = "list"
    /\ IsGeneralUser(response.user)
    /\ response.args = NoFilter
    /\ \E c \in Range(response.body) :
          /\ ActiveInAccessibleFacility(response.user, c)
          /\ ~InHomeFacility(response.user, c)
    /\ \E c \in DOMAIN consultations \ Range(response.body) :
          /\ ~PatientOf(c).is_active
          /\ PatientOf(c).facility \in response.user.accessible

\* C2: the tiers fall through in order and are never combined: a non-superuser
\* at or above StateLabAdmin gets exactly the rows whose patient's facility
\* state is the user's state; one at or above DistrictLabAdmin and below
\* StateLabAdmin gets exactly the rows whose patient's facility district is the
\* user's district.
C2_TierFallthrough ==
    (response.op = "list" /\ ~response.user.is_superuser) =>
        /\ response.user.user_type >= TYPE_VALUE_MAP.StateLabAdmin =>
              Range(response.body) =
                  {c \in Requested :
                      patient__facility__state(c) = response.user.state}
        /\ (/\ response.user.user_type >= TYPE_VALUE_MAP.DistrictLabAdmin
            /\ response.user.user_type < TYPE_VALUE_MAP.StateLabAdmin) =>
              Range(response.body) =
                  {c \in Requested :
                      patient__facility__district(c) = response.user.district}

\* A state-tier user's list holding a row of another district, outside the
\* user's home facility and accessible set.
C2_Witness ==
    /\ response.op = "list"
    /\ ~response.user.is_superuser
    /\ response.user.user_type > TYPE_VALUE_MAP.StateLabAdmin
    /\ \E c \in Range(response.body) :
          /\ patient__facility__district(c) # response.user.district
          /\ ~InHomeFacility(response.user, c)
          /\ ~ActiveInAccessibleFacility(response.user, c)

\* C3: a superuser gets every consultation row, whatever the row's facility,
\* state and district and whatever the user's tier, state, district and home
\* facility.
C3_SuperuserSeesAll ==
    (response.op = "list" /\ response.user.is_superuser) =>
        Range(response.body) = Requested

\* A superuser of the lowest tier whose unfiltered list holds a row that no
\* tier branch would select for that user.
C3_Witness ==
    /\ response.op = "list"
    /\ response.user.is_superuser
    /\ response.user.user_type = TYPE_VALUE_MAP.Staff
    /\ response.args = NoFilter
    /\ Range(response.body) = DOMAIN consultations
    /\ \E c \in Range(response.body) :
          /\ ~InHomeFacility(response.user, c)
          /\ ~ActiveInAccessibleFacility(response.user, c)
          /\ patient__facility__state(c) # response.user.state
          /\ patient__facility__district(c) # response.user.district

ConsentOps == {"consent_list", "consent_retrieve"}

\* The consultations a response hands to its user, through the given operations:
\* the rows themselves, or the parents of the consent rows.
ReturnedBy(ops) ==
    IF response.op \notin ops \/ response.status # 200 THEN {}
    ELSE IF response.op \in {"list", "retrieve", "discharge_patient"}
        THEN Range(response.body)
    ELSE IF response.op = "patient_from_asset"
        THEN {response.body[1].consultation}
    ELSE IF response.op \in ConsentOps
        THEN {consents[k].consultation : k \in Range(response.body)}
    ELSE {}

\* Every row satisfying the predicate is returned: by an unfiltered list, and
\* by retrieve when it is the row asked for.
PredicateSuffices ==
    /\ (response.op = "list" /\ response.args = NoFilter) =>
          get_queryset(response.user) \subseteq Range(response.body)
    /\ response.op = "retrieve" =>
          \A c \in get_queryset(response.user) :
              consultations[c].external_id = response.args =>
                  response.status = 200 /\ response.body = <<c>>

\* C4: a consultation or consent is returned by any operation of the
\* two viewsets, patient_from_asset included, iff get_queryset's predicate
\* holds for the record and the user.
C4_Original ==
    /\ \A c \in ReturnedBy({"list", "retrieve", "discharge_patient",
                            "patient_from_asset"} \cup ConsentOps) :
          c \in get_queryset(response.user)
    /\ PredicateSuffices

\* C4 (amended): a consultation or consent is returned by consultation
\* list/retrieve, discharge_patient or consent list/retrieve only if
\* get_queryset's predicate holds for the record and the user, and every record
\* for which it holds is returned by an unfiltered list and by retrieve;
\* patient_from_asset is not covered.
C4_PredicateGuardsViews ==
    /\ \A c \in ReturnedBy({"list", "retrieve", "discharge_patient"}
                           \cup ConsentOps) :
          c \in get_queryset(response.user)
    /\ PredicateSuffices

\* A general user has discharged a consultation that the predicate admits only
\* through the home facility.
C4_Witness ==
    /\ response.op = "discharge_patient"
    /\ response.status = 200
    /\ IsGeneralUser(response.user)
    /\ \E c \in Range(response.body) :
          /\ InHomeFacility(response.user, c)
          /\ ~ActiveInAccessibleFacility(response.user, c)

\* C5: every consent a consent request returns belongs to the consultation named
\* in the path, and that consultation satisfies the user's access predicate.
C5_ConsentWithinConsultation ==
    (response.op \in ConsentOps /\ response.status = 200) =>
        \A k \in Range(response.body) :
            /\ consultations[consents[k].consultation].external_id
                  = response.args.consultation_external_id
            /\ consents[k].consultation \in get_queryset(response.user)

\* A non-superuser was given a consent while another consultation, invisible to
\* that user, has consents too.
C5_Witness ==
    /\ response.op = "consent_list"
    /\ response.status = 200
    /\ ~response.user.is_superuser
    /\ response.body # <<>>
    /\ \E k \in DOMAIN consents :
          consents[k].consultation \notin get_queryset(response.user)

\* C6: a consent request whose path names no consultation visible to the caller
\* ends in 404 with no body, whether the consultation is missing or exists
\* outside the caller's predicate.
C6_ConsentNotFound ==
    (/\ response.op \in ConsentOps
     /\ ~\E c \in get_queryset(response.user) :
            consultations[c].external_id = response.args.consultation_external_id) =>
        /\ response.status = 404
        /\ response.body = <<>>

\* A consent list for a consultation that exists, has consents, and is outside
\* the caller's predicate, answered 404.
C6_Witness ==
    /\ response.op = "consent_list"
    /\ response.status = 404
    /\ \E k \in DOMAIN consents :
          /\ consultations[consents[k].consultation].external_id
                = response.args.consultation_external_id
          /\ consents[k].consultation \notin get_queryset(response.user)

\* After a successful discharge the consultation, resolved through the
\* predicate, with current_bed = None.
C7_Discharged ==
    (response.op = "discharge_patient" /\ response.status = 200) =>
        \A c \in Range(response.body) :
            /\ consultations[c].external_id = response.args
            /\ c \in get_queryset(response.user)
            /\ consultations[c].current_bed = None

\* Once current_bed is None no request changes the row again.
C7_Terminal ==
    \A c \in DOMAIN consultations :
        consultations[c].current_bed = None =>
            /\ c \in DOMAIN consultations'
            /\ consultations'[c] = consultations[c]

\* C7: discharge_patient on a visible consultation leaves current_bed = None;
\* the transition is one-way, and a further successful discharge leaves the
\* same row.
C7_DischargeOneWay == []C7_Discharged /\ [][C7_Terminal]_vars

\* A second discharge of a consultation succeeded: the instance it read had
\* current_bed = None already.
C7_Witness ==
    /\ response.op = "discharge_patient"
    /\ response.status = 200
    /\ response.instance.current_bed = None
    /\ \A c \in Range(response.body) : consultations[c].current_bed = None

\* The step in which request p saves: the instance it read is the row as it
\* stands, and the rows of other consultations are left alone.
C8_Step ==
    \A p \in Procs :
        (/\ inflight[p] # Idle
         /\ inflight'[p] = Idle
         /\ response'.status = 200) =>
            /\ inflight[p].instance = consultations[inflight[p].consultation]
            /\ \A c \in DOMAIN consultations \ {inflight[p].consultation} :
                  consultations'[c] = consultations[c]

\* C8: discharge is atomic per consultation: in no interleaving of concurrent
\* discharge_patient requests does another request's write fall between a
\* request's read and its write (no stale instance is saved), and a discharge
\* touches no other consultation.
C8_AtomicDischarge == [][C8_Step]_vars

\* Open assignments that reference the asset or a bed linked to it.
OpenAssignments(asset) ==
    {b \in DOMAIN consultation_beds :
        /\ consultation_beds[b].end_date = None
        /\ \/ asset \in consultation_beds[b].assets
           \/ \E i \in AssetBedIds :
                 /\ asset_bed_rows[i].asset = asset
                 /\ asset_bed_rows[i].bed = consultation_beds[b].bed}

\* Active-patient consultations placed in assignment b.
PlacedIn(b) ==
    {c \in DOMAIN consultations :
        consultations[c].current_bed = b /\ PatientOf(c).is_active}

\* C9: patient_from_asset answers 404 when the asset has no open assignment and
\* when no active-patient consultation has the resolved assignment as its
\* current bed; otherwise it returns the ids of the highest open assignment's
\* bed and of the highest consultation placed in it, with that patient.
C9_AssetLookup ==
    response.op = "patient_from_asset" =>
        LET open == OpenAssignments(response.user.asset) IN
        IF open = {}
        THEN /\ response.status = 404
             /\ response.body = <<"No consultation bed found for this asset">>
        ELSE IF PlacedIn(Max(open)) = {}
        THEN /\ response.status = 404
             /\ response.body = <<"No consultation found for this asset">>
        ELSE LET b == Max(open)
                 c == Max(PlacedIn(b))
                 found == response.body[1]
             IN /\ response.status = 200
                /\ found.consultation_id = ConsultationExternalId(c)
                /\ found.patient_id = PatientExternalId(consultations[c].patient)
                /\ found.bed_id = BedExternalId(consultation_beds[b].bed)
                /\ found.consultation = c
                /\ found.consultation_bed = b
                /\ \A i \in found.asset_beds :
                      asset_bed_rows[i].bed = consultation_beds[b].bed
                /\ response.args = <<>> => found.asset_beds = {}

\* A lookup that succeeded with two open assignments, the lower of which also
\* holds an active-patient consultation, and returned bed-asset presets.
C9_Witness ==
    /\ response.op = "patient_from_asset"
    /\ response.status = 200
    /\ \E b1, b2 \in OpenAssignments(response.user.asset) :
          /\ b1 < b2
          /\ PlacedIn(b1) # {}
          /\ response.body[1].consultation_bed = b2
    /\ response.body[1].asset_beds # {}

====
